---- MODULE Spec2Model ----
(***************************************************************************)
(* DataFusion query compilation: the SQL planner (sqlplanner.rs), the      *)
(* projection push-down rewrite and the executor glue (context.rs,         *)
(* projection.rs).                                                         *)
(*                                                                         *)
(* Conventions.                                                            *)
(*   Option<T>   : <<>> is None, <<x>> is Some(x).                         *)
(*   Result<T>   : [status |-> "Ok", val |-> <<x>>, err |-> <<>>],         *)
(*                 [status |-> "Err", val |-> <<>>, err |-> <<kind, ...>>],*)
(*                 and a third status "Panic" for an abort (panic!,        *)
(*                 unwrap on Err, unimplemented!, index out of range),     *)
(*                 which no caller can catch.                              *)
(*   Vec<T>      : a sequence, 1-based here; Column indices stay 0-based.  *)
(***************************************************************************)
EXTENDS Integers, Sequences, FiniteSets, TLC

VARIABLES
    pc,          \* position of the caller
    sql,         \* the AST handed to sql_to_rel / sql_to_rex
    schema,      \* the schema handed to sql_to_rex
    rex,         \* Result<Expr> of sql_to_rex
    plan,        \* Result<LogicalPlan> of sql_to_rel
    seed,        \* the HashSet<usize> handed to push_down_projection
    seedHasher,  \* the hasher state of that HashSet
    optimized,   \* push_down_projection(plan, seed)
    reoptimized, \* push_down_projection(optimized, seed)
    rel,         \* Result<Relation> of execute, or a relation built with new()
    pulls,       \* what the input of the relation returned, call by call
    output,      \* what next() of the relation returned, call by call
    returned,    \* what the call of sql() or execute() returned, None before
    stack,       \* the nodes whose arm of execute waits for its input relation
    trace        \* the stages run and the relations built, in order

\* the variables of the executor, which planning and rewriting leave alone
callVars == <<returned, stack, trace>>
execVars == <<rel, pulls, output, returned, stack, trace>>

vars == <<pc, sql, schema, rex, plan, seed, seedHasher, optimized, reoptimized,
          rel, pulls, output, returned, stack, trace>>

(***************************************************************************)
(* Option and Result                                                       *)
(***************************************************************************)
None == <<>>
Some(x) == <<x>>
IsSome(o) == Len(o) = 1
Unwrap(o) == o[1]

Ok(x) == [status |-> "Ok", val |-> <<x>>, err |-> <<>>]
Err(e) == [status |-> "Err", val |-> <<>>, err |-> e]
Panic(e) == [status |-> "Panic", val |-> <<>>, err |-> e]
IsOk(r) == r.status = "Ok"
Val(r) == r.val[1]

\* iter.collect::<Result<Vec<T>>>(): the elements up to the first failure are
\* evaluated, in order; the first Err (or abort) is the result.
RECURSIVE CollectFrom(_, _, _)
CollectFrom(rs, i, acc) ==
    IF i > Len(rs) THEN Ok(acc)
    ELSE IF IsOk(rs[i]) THEN CollectFrom(rs, i + 1, Append(acc, Val(rs[i])))
    ELSE rs[i]
Collect(rs) == CollectFrom(rs, 1, <<>>)

(***************************************************************************)
(* arrow::datatypes                                                        *)
(***************************************************************************)
SignedTypes == {"Int8", "Int16", "Int32", "Int64"}
UnsignedTypes == {"UInt8", "UInt16", "UInt32", "UInt64"}
FloatTypes == {"Float32", "Float64"}
DataTypes == {"Boolean", "Utf8"} \cup SignedTypes \cup UnsignedTypes \cup FloatTypes

Width(t) ==
    CASE t \in {"Int8", "UInt8"} -> 8
      [] t \in {"Int16", "UInt16"} -> 16
      [] t \in {"Int32", "UInt32", "Float32"} -> 32
      [] OTHER -> 64
SignedOf(w) == CHOOSE t \in SignedTypes : Width(t) = w
UnsignedOf(w) == CHOOSE t \in UnsignedTypes : Width(t) = w
MaxOf(a, b) == IF a >= b THEN a ELSE b

Field(name, data_type, nullable) ==
    [name |-> name, data_type |-> data_type, nullable |-> nullable]

\* Schema::empty()
EmptySchema == <<>>

(***************************************************************************)
(* The schema provider of the planner's tests.                             *)
(***************************************************************************)
PersonSchema ==
    << Field("id", "UInt32", FALSE),
       Field("first_name", "Utf8", FALSE),
       Field("last_name", "Utf8", FALSE),
       Field("age", "Int32", FALSE),
       Field("state", "Utf8", FALSE),
       Field("salary", "Float64", FALSE) >>

get_table_meta(name) ==
    IF name = "person" THEN Some(PersonSchema) ELSE None

get_function_meta(name) ==
    IF name = "sqrt"
    THEN Some([name |-> "sqrt",
               args |-> << Field("n", "Float64", FALSE) >>,
               return_type |-> "Float64",
               function_type |-> "Scalar"])
    ELSE None

(***************************************************************************)
(* logicalplan: Expr                                                       *)
(***************************************************************************)
Column(i) == [tag |-> "Column", index |-> i]
Literal(t, v) == [tag |-> "Literal", data_type |-> t, v |-> v]
Cast(e, t) == [tag |-> "Cast", expr |-> e, data_type |-> t]
IsNull(e) == [tag |-> "IsNull", expr |-> e]
IsNotNull(e) == [tag |-> "IsNotNull", expr |-> e]
BinaryExpr(l, op, r) == [tag |-> "BinaryExpr", left |-> l, op |-> op, right |-> r]
ScalarFunction(name, args, rt) ==
    [tag |-> "ScalarFunction", name |-> name, args |-> args, return_type |-> rt]
AggregateFunction(name, args, rt) ==
    [tag |-> "AggregateFunction", name |-> name, args |-> args, return_type |-> rt]
SortExpr(e, asc) == [tag |-> "Sort", expr |-> e, asc |-> asc]

Operators ==
    {"Gt", "GtEq", "Lt", "LtEq", "Eq", "NotEq", "Plus", "Minus", "Multiply",
     "Divide", "Modulus", "And", "Or", "Not", "Like", "NotLike"}
ArithmeticOps == {"Plus", "Minus", "Multiply", "Divide", "Modulus"}

\* The supertype lattice. NoType stands for Option::None of a DataType.
NoType == "None"
get_supertype(l, r) ==
    CASE l = r -> l
      [] l \in SignedTypes /\ r \in SignedTypes -> SignedOf(MaxOf(Width(l), Width(r)))
      [] l \in UnsignedTypes /\ r \in UnsignedTypes ->
            UnsignedOf(MaxOf(Width(l), Width(r)))
      [] l \in SignedTypes /\ r \in UnsignedTypes ->
            IF Width(r) < Width(l) THEN l
            ELSE IF Width(r) < 64 THEN SignedOf(2 * Width(r)) ELSE NoType
      [] l \in UnsignedTypes /\ r \in SignedTypes ->
            IF Width(l) < Width(r) THEN r
            ELSE IF Width(l) < 64 THEN SignedOf(2 * Width(l)) ELSE NoType
      [] l \in FloatTypes /\ r \in FloatTypes -> "Float64"
      [] l \in FloatTypes /\ r \in SignedTypes \cup UnsignedTypes -> l
      [] l \in SignedTypes \cup UnsignedTypes /\ r \in FloatTypes -> r
      [] OTHER -> NoType

\* Expr::get_type(schema)
RECURSIVE get_type(_, _)
get_type(e, s) ==
    CASE e.tag = "Column" -> s[e.index + 1].data_type
      [] e.tag = "Literal" -> e.data_type
      [] e.tag = "Cast" -> e.data_type
      [] e.tag \in {"ScalarFunction", "AggregateFunction"} -> e.return_type
      [] e.tag \in {"IsNull", "IsNotNull"} -> "Boolean"
      [] e.tag = "BinaryExpr" ->
            IF e.op \in ArithmeticOps
            THEN get_supertype(get_type(e.left, s), get_type(e.right, s))
            ELSE "Boolean"
      [] OTHER -> NoType

\* A cast is allowed when it widens: the target is the supertype of the two.
can_coerce_from(to, from) == get_supertype(to, from) = to

\* Expr::cast_to(cast_to_type, schema)
cast_to(e, t, s) ==
    IF get_type(e, s) = t THEN Ok(e)
    ELSE IF can_coerce_from(t, get_type(e, s)) THEN Ok(Cast(e, t))
    ELSE Err(<<"General", "Cannot automatically convert", get_type(e, s), t>>)

(***************************************************************************)
(* sqlparser::sqlast: the AST shapes the planner matches on                *)
(***************************************************************************)
SQLLong(n) == [node |-> "SQLValue", kind |-> "Long", v |-> n]
SQLDouble(x) == [node |-> "SQLValue", kind |-> "Double", v |-> x]
SQLString(str) == [node |-> "SQLValue", kind |-> "SingleQuotedString", s |-> str]
SQLBoolean(b) == [node |-> "SQLValue", kind |-> "Boolean", b |-> b]
SQLIdentifier(id) == [node |-> "SQLIdentifier", id |-> id]
SQLWildcard == [node |-> "SQLWildcard"]
SQLCast(e, t) == [node |-> "SQLCast", expr |-> e, data_type |-> t]
SQLIsNull(e) == [node |-> "SQLIsNull", expr |-> e]
SQLIsNotNull(e) == [node |-> "SQLIsNotNull", expr |-> e]
SQLBinaryExpr(l, op, r) == [node |-> "SQLBinaryExpr", left |-> l, op |-> op, right |-> r]
SQLFunction(id, args) == [node |-> "SQLFunction", id |-> id, args |-> args]
SQLNested(e) == [node |-> "SQLNested", expr |-> e]
SQLOrderBy(e, asc) == [expr |-> e, asc |-> asc]
SQLSelect(projection, relation, selection, order_by, limit, group_by, having) ==
    [node |-> "SQLSelect", projection |-> projection, relation |-> relation,
     selection |-> selection, order_by |-> order_by, limit |-> limit,
     group_by |-> group_by, having |-> having]

\* str::to_lowercase on the function names the model uses
to_lowercase(id) ==
    CASE id \in {"min", "MIN", "Min"} -> "min"
      [] id \in {"max", "MAX"} -> "max"
      [] id \in {"sum", "SUM"} -> "sum"
      [] id \in {"avg", "AVG"} -> "avg"
      [] id \in {"count", "COUNT", "Count"} -> "count"
      [] id \in {"sqrt", "SQRT", "Sqrt"} -> "sqrt"
      [] OTHER -> id

\* convert_data_type
convert_data_type(t) ==
    CASE t = "Boolean" -> Ok("Boolean")
      [] t = "SmallInt" -> Ok("Int16")
      [] t = "Int" -> Ok("Int32")
      [] t = "BigInt" -> Ok("Int64")
      [] t \in {"Float", "Real"} -> Ok("Float64")
      [] t = "Double" -> Ok("Float64")
      [] t \in {"Char", "Varchar"} -> Ok("Utf8")
      [] OTHER -> Err(<<"NotImplemented", "Unsupported SQL type", t>>)

\* schema.fields().iter().position(|c| c.name().eq(id)), 0-based
Position(s, id) ==
    IF \E i \in 1..Len(s) : s[i].name = id
    THEN Some((CHOOSE i \in 1..Len(s) :
                 s[i].name = id /\ \A j \in 1..(i - 1) : s[j].name # id) - 1)
    ELSE None

\* the match on the operator in the SQLBinaryExpr arm: every SQLOperator has
\* the Operator of the same name
ToOperator(op) == op

\* the SQLBinaryExpr arm with the cast of the right operand left out
BinaryRexCastingLeftOnly(left_expr, op, right_expr, s) ==
    LET left_type == get_type(left_expr, s)
        right_type == get_type(right_expr, s)
        supertype == get_supertype(left_type, right_type)
    IN  IF supertype # NoType
        THEN LET l == cast_to(left_expr, supertype, s)
             IN  IF ~IsOk(l) THEN l
                 ELSE Ok(BinaryExpr(Val(l), ToOperator(op), right_expr))
        ELSE Err(<<"General", "No common supertype found for binary operator",
                   ToOperator(op), left_type, right_type>>)

\* the SQLBinaryExpr arm, after both operands are translated
BinaryRex(left_expr, op, right_expr, s) ==
    LET left_type == get_type(left_expr, s)
        right_type == get_type(right_expr, s)
        supertype == get_supertype(left_type, right_type)
    IN  IF supertype # NoType
        THEN LET l == cast_to(left_expr, supertype, s)
                 r == cast_to(right_expr, supertype, s)
             IN  IF ~IsOk(l) THEN l
                 ELSE IF ~IsOk(r) THEN r
                 ELSE Ok(BinaryExpr(Val(l), ToOperator(op), Val(r)))
        ELSE Err(<<"General", "No common supertype found for binary operator",
                   ToOperator(op), left_type, right_type>>)

\* the scalar-function arm, after the arguments are translated: each argument
\* is cast to the type of the declared parameter at the same position
SafeArgs(rex_args, fm, s) ==
    Collect([i \in 1..Len(rex_args) |->
               IF i > Len(fm.args)
               THEN Panic(<<"index out of bounds">>)
               ELSE cast_to(rex_args[i], fm.args[i].data_type, s)])

\* the name the catalog is asked for
LookupName(id) == id

\* SqlToRel::sql_to_rex
RECURSIVE sql_to_rex(_, _)
RexArgs(args, s) == Collect([i \in 1..Len(args) |-> sql_to_rex(args[i], s)])
CountArgs(args, s) ==
    Collect([i \in 1..Len(args) |->
               IF args[i] = SQLLong(1) THEN Ok(Column(0))
               ELSE IF args[i] = SQLWildcard THEN Ok(Column(0))
               ELSE sql_to_rex(args[i], s)])
sql_to_rex(ast, s) ==
    CASE ast.node = "SQLValue" /\ ast.kind = "Long" -> Ok(Literal("Int64", ast.v))
      [] ast.node = "SQLValue" /\ ast.kind = "Double" -> Ok(Literal("Float64", ast.v))
      [] ast.node = "SQLValue" /\ ast.kind = "SingleQuotedString" ->
            Ok(Literal("Utf8", ast.s))
      [] ast.node = "SQLIdentifier" ->
            IF IsSome(Position(s, ast.id))
            THEN Ok(Column(Unwrap(Position(s, ast.id))))
            ELSE Err(<<"ExecutionError", "Invalid identifier", ast.id>>)
      [] ast.node = "SQLWildcard" ->
            Panic(<<"SQL wildcard operator is not supported in projection">>)
      [] ast.node = "SQLCast" ->
            LET e == sql_to_rex(ast.expr, s)
                t == convert_data_type(ast.data_type)
            IN  IF ~IsOk(e) THEN e
                ELSE IF ~IsOk(t) THEN t
                ELSE Ok(Cast(Val(e), Val(t)))
      [] ast.node = "SQLIsNull" ->
            LET e == sql_to_rex(ast.expr, s)
            IN  IF IsOk(e) THEN Ok(IsNull(Val(e))) ELSE e
      [] ast.node = "SQLIsNotNull" ->
            LET e == sql_to_rex(ast.expr, s)
            IN  IF IsOk(e) THEN Ok(IsNotNull(Val(e))) ELSE e
      [] ast.node = "SQLBinaryExpr" ->
            LET l == sql_to_rex(ast.left, s)
                r == sql_to_rex(ast.right, s)
            IN  IF ~IsOk(l) THEN l
                ELSE IF ~IsOk(r) THEN r
                ELSE BinaryRex(Val(l), ast.op, Val(r), s)
      [] ast.node = "SQLFunction" ->
            IF to_lowercase(ast.id) \in {"min", "max", "sum", "avg"}
            THEN LET rex_args == RexArgs(ast.args, s)
                 IN  IF ~IsOk(rex_args) THEN rex_args
                     ELSE IF Len(Val(rex_args)) = 0
                     THEN Panic(<<"index out of bounds">>)
                     ELSE Ok(AggregateFunction(ast.id, Val(rex_args),
                                               get_type(Val(rex_args)[1], s)))
            ELSE IF to_lowercase(ast.id) = "count"
            THEN LET rex_args == CountArgs(ast.args, s)
                 IN  IF ~IsOk(rex_args) THEN rex_args
                     ELSE Ok(AggregateFunction(ast.id, Val(rex_args), "UInt64"))
            ELSE LET fm == get_function_meta(LookupName(ast.id))
                 IN  IF IsSome(fm)
                     THEN LET rex_args == RexArgs(ast.args, s)
                          IN  IF ~IsOk(rex_args) THEN rex_args
                              ELSE LET safe_args == SafeArgs(Val(rex_args), Unwrap(fm), s)
                                   IN  IF ~IsOk(safe_args) THEN safe_args
                                       ELSE Ok(ScalarFunction(ast.id, Val(safe_args),
                                                              Unwrap(fm).return_type))
                     ELSE Err(<<"General", "Invalid function", ast.id>>)
      [] OTHER -> Err(<<"General", "Unsupported ast node", ast.node>>)

(***************************************************************************)
(* logicalplan: LogicalPlan                                                *)
(***************************************************************************)
EmptyRelation(sch) == [kind |-> "EmptyRelation", schema |-> sch]
TableScan(schema_name, table_name, sch, projection) ==
    [kind |-> "TableScan", schema_name |-> schema_name, table_name |-> table_name,
     schema |-> sch, projection |-> projection]
Selection(expr, input) == [kind |-> "Selection", expr |-> expr, input |-> input]
\* (the Vec<Expr> fields of Projection and Sort are named exprs, the single
\* Expr of Selection and Limit expr: a record field holds values of one shape)
Projection(expr, input, sch) ==
    [kind |-> "Projection", exprs |-> expr, input |-> input, schema |-> sch]
Aggregate(input, group_expr, aggr_expr, sch) ==
    [kind |-> "Aggregate", input |-> input, group_expr |-> group_expr,
     aggr_expr |-> aggr_expr, schema |-> sch]
Sort(expr, input, sch) == [kind |-> "Sort", exprs |-> expr, input |-> input, schema |-> sch]
Limit(expr, input, sch) == [kind |-> "Limit", expr |-> expr, input |-> input, schema |-> sch]

\* LogicalPlan::schema()
RECURSIVE PlanSchema(_)
PlanSchema(p) == IF p.kind = "Selection" THEN PlanSchema(p.input) ELSE p.schema

(***************************************************************************)
(* sqlplanner: schema derivation                                           *)
(***************************************************************************)
\* expr_to_field; an abort where the code indexes out of range, unwraps None
\* or reaches unimplemented!
expr_to_field(e, input_schema) ==
    CASE e.tag = "Column" ->
            IF e.index < Len(input_schema) THEN Ok(input_schema[e.index + 1])
            ELSE Panic(<<"index out of bounds">>)
      [] e.tag = "Literal" -> Ok(Field("lit", e.data_type, TRUE))
      [] e.tag \in {"ScalarFunction", "AggregateFunction"} ->
            Ok(Field(e.name, e.return_type, TRUE))
      [] e.tag = "Cast" -> Ok(Field("cast", e.data_type, TRUE))
      [] e.tag = "BinaryExpr" ->
            LET st == get_supertype(get_type(e.left, input_schema),
                                    get_type(e.right, input_schema))
            IN  IF st # NoType THEN Ok(Field("binary_expr", st, TRUE))
                ELSE Panic(<<"called Option::unwrap() on a None value">>)
      [] OTHER -> Panic(<<"Cannot determine schema type for expression">>)

\* exprlist_to_fields
exprlist_to_fields(expr, input_schema) ==
    Collect([i \in 1..Len(expr) |-> expr_to_field(expr[i], input_schema)])

(***************************************************************************)
(* SqlToRel::sql_to_rel                                                    *)
(***************************************************************************)
\* expr.iter().filter(|e| is AggregateFunction)
RECURSIVE FilterAggregates(_)
FilterAggregates(expr) ==
    IF expr = <<>> THEN <<>>
    ELSE IF Head(expr).tag = "AggregateFunction"
    THEN <<Head(expr)>> \o FilterAggregates(Tail(expr))
    ELSE FilterAggregates(Tail(expr))

\* the Aggregate branch with the aggregate fields ahead of the group fields
AggregateBranchAggrFieldsFirst(ast, input, input_schema, selection_plan, aggr_expr) ==
    LET aggregate_input == IF IsSome(selection_plan) THEN Unwrap(selection_plan) ELSE input
        group_expr ==
            IF IsSome(ast.group_by)
            THEN Collect([i \in 1..Len(Unwrap(ast.group_by)) |->
                            sql_to_rex(Unwrap(ast.group_by)[i], input_schema)])
            ELSE Ok(<<>>)
    IN  IF ~IsOk(group_expr) THEN group_expr
        ELSE LET all_fields == aggr_expr \o Val(group_expr)
                 aggr_schema == exprlist_to_fields(all_fields, input_schema)
             IN  IF ~IsOk(aggr_schema) THEN aggr_schema
                 ELSE Ok(Aggregate(aggregate_input, Val(group_expr), aggr_expr,
                                   Val(aggr_schema)))

\* the Aggregate branch (aggr_expr.len() > 0)
AggregateBranch(ast, input, input_schema, selection_plan, aggr_expr) ==
    LET aggregate_input == IF IsSome(selection_plan) THEN Unwrap(selection_plan) ELSE input
        group_expr ==
            IF IsSome(ast.group_by)
            THEN Collect([i \in 1..Len(Unwrap(ast.group_by)) |->
                            sql_to_rex(Unwrap(ast.group_by)[i], input_schema)])
            ELSE Ok(<<>>)
    IN  IF ~IsOk(group_expr) THEN group_expr
        ELSE LET all_fields == Val(group_expr) \o aggr_expr
                 aggr_schema == exprlist_to_fields(all_fields, input_schema)
             IN  IF ~IsOk(aggr_schema) THEN aggr_schema
                 ELSE Ok(Aggregate(aggregate_input, Val(group_expr), aggr_expr,
                                   Val(aggr_schema)))

\* one ORDER BY item: Expr::Sort over sql_to_rex(..).unwrap()
OrderByItem(e, input_schema) ==
    LET r == sql_to_rex(e.expr, input_schema)
    IN  IF IsOk(r) THEN Ok(SortExpr(Val(r), e.asc))
        ELSE Panic(<<"called Result::unwrap() on an Err value">> \o r.err)

\* match order_by with the keys resolved against the input of the Projection
OrderByPlanOverInput(ast, projection) ==
    IF IsSome(ast.order_by)
    THEN LET input_schema == PlanSchema(projection.input)
             order_by_rex ==
                 Collect([i \in 1..Len(Unwrap(ast.order_by)) |->
                            OrderByItem(Unwrap(ast.order_by)[i], input_schema)])
         IN  IF ~IsOk(order_by_rex) THEN order_by_rex
             ELSE Ok(Sort(Val(order_by_rex), projection, input_schema))
    ELSE Ok(projection)

\* match order_by
OrderByPlan(ast, projection) ==
    IF IsSome(ast.order_by)
    THEN LET input_schema == PlanSchema(projection)
             order_by_rex ==
                 Collect([i \in 1..Len(Unwrap(ast.order_by)) |->
                            OrderByItem(Unwrap(ast.order_by)[i], input_schema)])
         IN  IF ~IsOk(order_by_rex) THEN order_by_rex
             ELSE Ok(Sort(Val(order_by_rex), projection, input_schema))
    ELSE Ok(projection)

\* match limit
LimitPlan(ast, order_by_plan) ==
    IF IsSome(ast.limit)
    THEN LET input_schema == PlanSchema(order_by_plan)
             limit_rex == sql_to_rex(Unwrap(ast.limit), input_schema)
         IN  IF ~IsOk(limit_rex) THEN limit_rex
             ELSE Ok(Limit(Val(limit_rex), order_by_plan, input_schema))
    ELSE Ok(order_by_plan)

\* the Projection branch
ProjectionBranch(ast, input, input_schema, selection_plan, expr) ==
    LET projection_input == IF IsSome(selection_plan) THEN Unwrap(selection_plan) ELSE input
        projection_schema == exprlist_to_fields(expr, input_schema)
    IN  IF ~IsOk(projection_schema) THEN projection_schema
        ELSE IF IsSome(ast.having)
        THEN Err(<<"General", "HAVING is not implemented yet">>)
        ELSE LET projection == Projection(expr, projection_input, Val(projection_schema))
                 order_by_plan == OrderByPlan(ast, projection)
             IN  IF ~IsOk(order_by_plan) THEN order_by_plan
                 ELSE LimitPlan(ast, Val(order_by_plan))

\* the SQLSelect arm once the input relation is planned
SelectOver(ast, input) ==
    LET input_schema == PlanSchema(input)
        filter ==
            IF IsSome(ast.selection)
            THEN sql_to_rex(Unwrap(ast.selection), input_schema)
            ELSE Ok(<<>>)
        selection_plan ==
            IF IsSome(ast.selection) THEN Some(Selection(Val(filter), input)) ELSE None
        expr == Collect([i \in 1..Len(ast.projection) |->
                           sql_to_rex(ast.projection[i], input_schema)])
    IN  IF ~IsOk(filter) THEN filter
        ELSE IF ~IsOk(expr) THEN expr
        ELSE LET aggr_expr == FilterAggregates(Val(expr))
             IN  IF Len(aggr_expr) > 0
                 THEN AggregateBranch(ast, input, input_schema, selection_plan, aggr_expr)
                 ELSE ProjectionBranch(ast, input, input_schema, selection_plan, Val(expr))

\* the SQLIdentifier arm with the scan under another schema name
RelationScanInOtherSchema(id) ==
    IF IsSome(get_table_meta(id))
    THEN Ok(TableScan("public", id, Unwrap(get_table_meta(id)), None))
    ELSE Err(<<"General", "no schema found for table", id>>)

\* the SQLIdentifier arm of sql_to_rel: a table of the schema provider
RelationScan(id) ==
    IF IsSome(get_table_meta(id))
    THEN Ok(TableScan("default", id, Unwrap(get_table_meta(id)), None))
    ELSE Err(<<"General", "no schema found for table", id>>)

RECURSIVE sql_to_rel(_)
sql_to_rel(ast) ==
    CASE ast.node = "SQLSelect" ->
            LET input ==
                    IF IsSome(ast.relation) THEN sql_to_rel(Unwrap(ast.relation))
                    ELSE Ok(EmptyRelation(EmptySchema))
            IN  IF ~IsOk(input) THEN input ELSE SelectOver(ast, Val(input))
      [] ast.node = "SQLIdentifier" -> RelationScan(ast.id)
      [] OTHER -> Err(<<"ExecutionError", "sql_to_rel does not support this relation",
                        ast.node>>)

(***************************************************************************)
(* sqlplanner: projection push-down                                        *)
(***************************************************************************)
\* collect_expr: the column indices e adds to accum
RECURSIVE collect_expr(_)
collect_expr(e) ==
    CASE e.tag = "Column" -> {e.index}
      [] e.tag = "Cast" -> collect_expr(e.expr)
      [] e.tag = "Literal" -> {}
      [] e.tag = "IsNotNull" -> collect_expr(e.expr)
      [] e.tag = "IsNull" -> collect_expr(e.expr)
      [] e.tag = "BinaryExpr" -> collect_expr(e.left) \cup collect_expr(e.right)
      [] e.tag = "AggregateFunction" ->
            UNION {collect_expr(e.args[i]) : i \in 1..Len(e.args)}
      [] e.tag = "ScalarFunction" ->
            UNION {collect_expr(e.args[i]) : i \in 1..Len(e.args)}
      [] e.tag = "Sort" -> collect_expr(e.expr)

\* exprs.iter().for_each(|e| collect_expr(e, &mut accum))
CollectAll(exprs) == UNION {collect_expr(exprs[i]) : i \in 1..Len(exprs)}

\* HashSet iteration. The order in which a HashSet<usize> yields its elements
\* is fixed by its hasher state (RandomState: a key per HashSet::new(), kept
\* by clone()) and its contents; it is not the numeric order. A hasher state
\* is a number here, and the k-th state lists a set in its k-th permutation:
\* every order of a set is the order of some hasher state.
RECURSIVE Factorial(_)
Factorial(n) == IF n <= 1 THEN 1 ELSE n * Factorial(n - 1)
Least(S) == CHOOSE x \in S : \A y \in S : x <= y
RECURSIVE Sorted(_)
Sorted(S) == IF S = {} THEN <<>> ELSE <<Least(S)>> \o Sorted(S \ {Least(S)})
RECURSIVE NthPermutation(_, _)
NthPermutation(S, k) ==
    IF S = {} THEN <<>>
    ELSE LET n == Cardinality(S)
             x == Sorted(S)[(k % n) + 1]
         IN  <<x>> \o NthPermutation(S \ {x}, k \div n)
IterOrder(h, S) == NthPermutation(S, h % Factorial(Cardinality(S)))

\* projection.iter().cloned().collect() in the TableScan arm
ScanProjection(projection, h) == IterOrder(h, projection)

\* the set handed down by the Aggregate arm
AggregateAccum(group_expr, aggr_expr, projection) ==
    CollectAll(group_expr) \cup CollectAll(aggr_expr)

\* the Selection arm with the columns of its own predicate left out
SelectionAccumWithoutPredicate(expr, projection) == projection

\* the set handed down by the Selection arm
SelectionAccum(expr, projection) == projection \cup collect_expr(expr)

\* the TableScan arm with the schema cut down to the columns listed
ScanArmNarrowingSchema(p, projection, h) ==
    LET kept == Sorted({i \in projection : i < Len(p.schema)})
    IN  TableScan(p.schema_name, p.table_name,
                  [k \in 1..Len(kept) |-> p.schema[kept[k] + 1]],
                  Some(ScanProjection(projection, h)))

\* the TableScan arm: the scan rebuilt with its own names and schema and
\* the listed columns as its projection
ScanArm(p, projection, h) ==
    TableScan(p.schema_name, p.table_name, p.schema,
              Some(ScanProjection(projection, h)))

\* push_down_projection(plan, projection); h is the hasher state of
\* projection, fresh the state the next HashSet::new() gets
RECURSIVE push_down_projection(_, _, _, _)
push_down_projection(p, projection, h, fresh) ==
    CASE p.kind = "Aggregate" ->
            Aggregate(push_down_projection(
                          p.input,
                          AggregateAccum(p.group_expr, p.aggr_expr, projection),
                          fresh, fresh + 1),
                      p.group_expr, p.aggr_expr, p.schema)
      [] p.kind = "Selection" ->
            Selection(p.expr,
                      push_down_projection(p.input, SelectionAccum(p.expr, projection),
                                           h, fresh))
      [] p.kind = "TableScan" -> ScanArm(p, projection, h)
      [] p.kind = "Projection" -> p
      [] p.kind = "Sort" -> p
      [] p.kind = "Limit" -> p
      [] p.kind = "EmptyRelation" -> p

(***************************************************************************)
(* Inputs of sql_to_rex: the expression ASTs the model draws from.          *)
(***************************************************************************)
MaxLong == 1
MaxArgs == 2

InputSQLTypes == {"BigInt", "Double", "Varchar", "Date"}
InputOps == {"Eq", "Plus", "And", "Like"}
InputFunctionNames == {"min", "MIN", "count", "COUNT", "sqrt", "SQRT", "nosuchfn"}
InputIdentifiers == {"id", "age", "state", "salary", "nosuch"}

AtomASTs ==
    {SQLLong(n) : n \in 0..MaxLong}
    \cup {SQLDouble(0), SQLString("CO"), SQLBoolean(TRUE), SQLWildcard}
    \cup {SQLIdentifier(id) : id \in InputIdentifiers}

SeqsUpTo(S, n) == UNION {[1..k -> S] : k \in 0..n}

UnaryASTs(S) ==
    {SQLCast(a, t) : a \in S, t \in InputSQLTypes}
    \cup {SQLIsNull(a) : a \in S} \cup {SQLIsNotNull(a) : a \in S}
    \cup {SQLNested(a) : a \in S}
BinaryASTs(S) == {SQLBinaryExpr(a, op, b) : a \in S, op \in InputOps, b \in S}
FunctionASTs(S, n) ==
    {SQLFunction(f, args) : f \in InputFunctionNames, args \in SeqsUpTo(S, n)}

\* operands of the nested expressions: one of each shape and type
NestedOperands ==
    {SQLIdentifier("age"), SQLIdentifier("state"), SQLLong(1),
     SQLCast(SQLIdentifier("age"), "Double"),
     SQLIsNull(SQLIdentifier("state")),
     SQLBinaryExpr(SQLIdentifier("age"), "Eq", SQLLong(1)),
     SQLBinaryExpr(SQLIdentifier("id"), "Plus", SQLIdentifier("age")),
     SQLBinaryExpr(SQLIdentifier("state"), "Eq", SQLString("CO")),
     SQLBinaryExpr(SQLIdentifier("state"), "Plus", SQLLong(1)),
     SQLFunction("MIN", <<SQLIdentifier("age")>>),
     SQLFunction("count", <<SQLWildcard>>),
     SQLFunction("sqrt", <<SQLIdentifier("age")>>),
     SQLFunction("SQRT", <<SQLIdentifier("age")>>)}

RexASTs ==
    AtomASTs \cup UnaryASTs(AtomASTs) \cup BinaryASTs(AtomASTs)
    \cup FunctionASTs(AtomASTs, MaxArgs)
    \cup UnaryASTs(NestedOperands) \cup BinaryASTs(NestedOperands)
    \cup FunctionASTs(NestedOperands, 1)

RexSchemas == {PersonSchema, EmptySchema}

(***************************************************************************)
(* Expression translation on its own: one call of sql_to_rex.              *)
(***************************************************************************)
InitRex ==
    /\ pc = "rex"
    /\ sql \in RexASTs
    /\ schema \in RexSchemas
    /\ rex = None
    /\ plan = None
    /\ seed = {}
    /\ seedHasher = 0
    /\ optimized = None
    /\ reoptimized = None
    /\ rel = None
    /\ pulls = <<>>
    /\ returned = None
    /\ stack = <<>>
    /\ trace = <<>>
    /\ output = <<>>

TranslateRex ==
    /\ pc = "rex"
    /\ rex' = sql_to_rex(sql, schema)
    /\ pc' = "rex_done"
    /\ UNCHANGED <<sql, schema, plan, seed, seedHasher, optimized, reoptimized, execVars>>

NextRex == TranslateRex

SpecRex == InitRex /\ [][NextRex]_vars

(***************************************************************************)
(* Inputs of sql_to_rel: the SELECT statements the model draws from.        *)
(***************************************************************************)
MaxProj == 2

NonEmptySeqsUpTo(S, n) == UNION {[1..k -> S] : k \in 1..n}

ProjectionASTs ==
    {SQLIdentifier("id"), SQLIdentifier("nosuch"),
     SQLLong(1), SQLWildcard,
     SQLIsNull(SQLIdentifier("state")),
     SQLBinaryExpr(SQLFunction("MIN", <<SQLIdentifier("age")>>), "Plus", SQLLong(1)),
     SQLFunction("MIN", <<SQLIdentifier("age")>>),
     SQLFunction("COUNT", <<SQLLong(1)>>),
     SQLFunction("sqrt", <<SQLIdentifier("age")>>)}

InnerSelect ==
    SQLSelect(<<SQLIdentifier("state"), SQLFunction("MIN", <<SQLIdentifier("age")>>)>>,
              Some(SQLIdentifier("person")), None, None, None,
              Some(<<SQLIdentifier("state")>>), None)

RelationASTs ==
    {None, Some(SQLIdentifier("person")), Some(SQLIdentifier("nosuch")),
     Some(InnerSelect)}

SelectionASTs ==
    {None,
     Some(SQLBinaryExpr(SQLIdentifier("state"), "Eq", SQLString("CO"))),
     Some(SQLBinaryExpr(SQLIdentifier("nosuch"), "Eq", SQLLong(1))),
     Some(SQLIdentifier("age")),
     Some(SQLIsNotNull(SQLFunction("COUNT", <<SQLWildcard>>)))}

OrderByASTs ==
    {None,
     Some(<<SQLOrderBy(SQLIdentifier("id"), TRUE)>>),
     Some(<<SQLOrderBy(SQLIdentifier("lit"), FALSE), SQLOrderBy(SQLIdentifier("id"), TRUE)>>),
     Some(<<SQLOrderBy(SQLIdentifier("id"), TRUE), SQLOrderBy(SQLIdentifier("nosuch"), TRUE)>>)}

LimitASTs == {None, Some(SQLLong(1))}

GroupByASTs ==
    {None, Some(<<SQLIdentifier("state")>>), Some(<<SQLIdentifier("nosuch")>>)}

HavingASTs ==
    {None, Some(SQLBinaryExpr(SQLIdentifier("id"), "Gt", SQLLong(1)))}

\* every projection list up to MaxProj, with the clauses that plan without
\* error
WideProjectionSelect(ast) ==
    \E projection \in NonEmptySeqsUpTo(ProjectionASTs, MaxProj),
       relation \in {None, Some(SQLIdentifier("person"))},
       selection \in {None, Some(SQLBinaryExpr(SQLIdentifier("state"), "Eq",
                                               SQLString("CO")))},
       order_by \in {None, Some(<<SQLOrderBy(SQLIdentifier("id"), TRUE)>>),
                     Some(<<SQLOrderBy(SQLIdentifier("lit"), FALSE),
                            SQLOrderBy(SQLIdentifier("id"), TRUE)>>)},
       limit \in LimitASTs,
       group_by \in {None, Some(<<SQLIdentifier("state")>>)},
       having \in HavingASTs :
         ast = SQLSelect(projection, relation, selection, order_by, limit, group_by, having)

\* every combination of clauses, with the one-item projection lists
WideClauseSelect(ast) ==
    \E projection \in NonEmptySeqsUpTo(ProjectionASTs, 1),
       relation \in RelationASTs,
       selection \in SelectionASTs,
       order_by \in OrderByASTs,
       limit \in LimitASTs,
       group_by \in GroupByASTs,
       having \in HavingASTs :
         ast = SQLSelect(projection, relation, selection, order_by, limit, group_by, having)

(***************************************************************************)
(* The query pipeline of ExecutionContext::sql: plan, then optimize.       *)
(***************************************************************************)
MaxHashKey == 2

Init ==
    /\ pc = "parsed"
    /\ WideProjectionSelect(sql) \/ WideClauseSelect(sql)
    /\ schema = EmptySchema
    /\ rex = None
    /\ plan = None
    /\ seed = {}
    /\ seedHasher = 0
    /\ optimized = None
    /\ reoptimized = None
    /\ rel = None
    /\ pulls = <<>>
    /\ returned = None
    /\ stack = <<>>
    /\ trace = <<>>
    /\ output = <<>>

\* let plan = query_planner.sql_to_rel(&ansi)
Plan ==
    /\ pc = "parsed"
    /\ plan' = sql_to_rel(sql)
    /\ pc' = "planned"
    /\ UNCHANGED <<sql, schema, rex, seed, seedHasher, optimized, reoptimized, execVars>>

\* let optimized_plan = self.optimize(&plan): the rule starts from an empty,
\* newly created set of needed columns
OptimizePlan ==
    /\ pc = "planned"
    /\ IsOk(plan)
    /\ \E fresh \in 0..MaxHashKey :
          optimized' = push_down_projection(Val(plan), {}, fresh, fresh + 1)
    /\ pc' = "optimized"
    /\ UNCHANGED <<sql, schema, rex, plan, seed, seedHasher, reoptimized, execVars>>

Next == Plan \/ OptimizePlan

Spec == Init /\ [][Next]_vars

(***************************************************************************)
(* The push-down rewrite on its own: push_down_projection on any plan and  *)
(* any seed set, then again on its own output with the same seed set.      *)
(***************************************************************************)
MaxDepth == 3

Lit(n) == Literal("Int64", n)
\* MIN(#i) and MAX(#i) over an input: the return type is the column's type
Min(i, input) ==
    AggregateFunction("MIN", <<Column(i)>>, get_type(Column(i), PlanSchema(input)))
Max(i, input) ==
    AggregateFunction("MAX", <<Column(i)>>, get_type(Column(i), PlanSchema(input)))

\* the nodes a plan is built from, as functions of their input
WrapAggregate(input, group_expr, aggr_expr) ==
    Aggregate(input, group_expr, aggr_expr,
              Val(exprlist_to_fields(group_expr \o aggr_expr, PlanSchema(input))))
WrapProjection(input, expr) ==
    Projection(expr, input, Val(exprlist_to_fields(expr, PlanSchema(input))))
WrapSort(input, expr) == Sort(expr, input, PlanSchema(input))
WrapLimit(input, expr) == Limit(expr, input, PlanSchema(input))

\* the input has at least n columns
HasColumns(input, n) == Len(PlanSchema(input)) >= n

Wrappings(input) ==
    (IF HasColumns(input, 5)
     THEN {WrapAggregate(input, <<>>, <<Min(3, input)>>),
           WrapAggregate(input, <<Column(4)>>, <<Min(3, input), Max(3, input)>>),
           Selection(BinaryExpr(Column(4), "Eq", Literal("Utf8", "CO")), input)}
     ELSE {})
    \cup
    (IF HasColumns(input, 3)
     THEN {WrapProjection(input, <<Column(0), Column(1), Column(2)>>)}
     ELSE {})
    \cup
    (IF HasColumns(input, 2)
     THEN {WrapAggregate(input, <<Column(1)>>, <<Min(0, input)>>),
           Selection(IsNotNull(Column(1)), input),
           WrapProjection(input, <<Column(1)>>)}
     ELSE {})
    \cup
    (IF HasColumns(input, 1)
     THEN {WrapSort(input, <<SortExpr(Column(0), TRUE)>>)}
     ELSE {})
    \cup {WrapLimit(input, Lit(1))}

LeafPlans == {TableScan("default", "person", PersonSchema, None), EmptyRelation(EmptySchema)}

RECURSIVE PlansOfDepth(_)
PlansOfDepth(d) ==
    IF d = 0 THEN LeafPlans
    ELSE UNION {Wrappings(p) : p \in PlansOfDepth(d - 1)}

InputPlans == UNION {PlansOfDepth(d) : d \in 0..MaxDepth}

SeedSets == {{}, {0}, {1, 5}}

InitOpt ==
    /\ pc = "planned"
    /\ sql = None
    /\ schema = EmptySchema
    /\ rex = None
    /\ plan \in {Ok(p) : p \in InputPlans}
    /\ seed \in SeedSets
    /\ seedHasher \in 0..MaxHashKey
    /\ optimized = None
    /\ reoptimized = None
    /\ rel = None
    /\ pulls = <<>>
    /\ returned = None
    /\ stack = <<>>
    /\ trace = <<>>
    /\ output = <<>>

\* push_down_projection(&plan, &seed)
Optimize ==
    /\ pc = "planned"
    /\ IsOk(plan)
    /\ \E fresh \in 0..MaxHashKey :
          optimized' = push_down_projection(Val(plan), seed, seedHasher, fresh)
    /\ pc' = "optimized"
    /\ UNCHANGED <<sql, schema, rex, plan, seed, seedHasher, reoptimized, execVars>>

\* push_down_projection(&optimized, &seed): the rewrite applied to its output
Reoptimize ==
    /\ pc = "optimized"
    /\ \E fresh \in 0..MaxHashKey :
          reoptimized' = push_down_projection(optimized, seed, seedHasher, fresh)
    /\ pc' = "reoptimized"
    /\ UNCHANGED <<sql, schema, rex, plan, seed, seedHasher, optimized, execVars>>

NextOpt == Optimize \/ Reoptimize

SpecOpt == InitOpt /\ [][NextOpt]_vars

(***************************************************************************)
(* Reading plans                                                           *)
(***************************************************************************)
IsLeaf(p) == p.kind \in {"TableScan", "EmptyRelation"}

\* the leaf a plan reads from
RECURSIVE LeafOf(_)
LeafOf(p) == IF IsLeaf(p) THEN p ELSE LeafOf(p.input)

\* the nodes above the leaf, root first
RECURSIVE Chain(_)
Chain(p) == IF IsLeaf(p) THEN <<>> ELSE <<p>> \o Chain(p.input)

\* the expressions a node carries
NodeExprs(n) ==
    CASE n.kind = "Aggregate" -> n.group_expr \o n.aggr_expr
      [] n.kind \in {"Selection", "Limit"} -> <<n.expr>>
      [] n.kind \in {"Projection", "Sort"} -> n.exprs
      [] OTHER -> <<>>

Range(f) == {f[i] : i \in DOMAIN f}

\* the scan's projection is populated
Populated(scan) == scan.kind = "TableScan" /\ IsSome(scan.projection)

\* the scan lists exactly the indices of S, each once
ScanCarries(scan, S) ==
    /\ Populated(scan)
    /\ Range(Unwrap(scan.projection)) = S
    /\ Len(Unwrap(scan.projection)) = Cardinality(S)

\* position in the chain of the Aggregate nearest to the leaf, 0 if none
NearestAggregate(c) ==
    IF \E i \in 1..Len(c) : c[i].kind = "Aggregate"
    THEN CHOOSE i \in 1..Len(c) :
            c[i].kind = "Aggregate" /\ \A j \in (i + 1)..Len(c) : c[j].kind # "Aggregate"
    ELSE 0

(***************************************************************************)
(* C1. The push-down rewrite applied to its own output, with the same seed *)
(* set, returns a tree equal to that output, the order of the index list   *)
(* of every TableScan.projection included.                                 *)
(* Fails: the list is the iteration order of a HashSet the Aggregate arm   *)
(* creates anew in each call.                                              *)
(***************************************************************************)
C1_Idempotent == pc = "reoptimized" => reoptimized = optimized

(***************************************************************************)
(* C2. After the rewrite the scan under Projection(exprs) -> optional      *)
(* Selection(pred) -> TableScan carries columns(exprs) U columns(pred),    *)
(* and the scan under Aggregate(group, aggr) -> optional Selection(pred)   *)
(* -> TableScan carries columns(group) U columns(aggr) U columns(pred),    *)
(* each index once.                                                        *)
(* Fails: the Projection arm returns the plan as it is.                    *)
(***************************************************************************)
IsScanOrSelectedScan(p) ==
    \/ p.kind = "TableScan"
    \/ p.kind = "Selection" /\ p.input.kind = "TableScan"
PredColumns(p) == IF p.kind = "Selection" THEN collect_expr(p.expr) ELSE {}

C2_ScanProjection ==
    pc = "optimized" =>
        LET p == Val(plan) IN
        /\ (p.kind = "Projection" /\ IsScanOrSelectedScan(p.input)) =>
              ScanCarries(LeafOf(optimized),
                          CollectAll(p.exprs) \cup PredColumns(p.input))
        /\ (p.kind = "Aggregate" /\ IsScanOrSelectedScan(p.input)) =>
              ScanCarries(LeafOf(optimized),
                          CollectAll(p.group_expr) \cup CollectAll(p.aggr_expr)
                              \cup PredColumns(p.input))

(***************************************************************************)
(* C3 as stated. Every column index of every expression of every ancestor  *)
(* of a populated TableScan of the rewritten plan is in the scan's         *)
(* projection.                                                             *)
(* Fails for the nodes above an Aggregate: their columns address the       *)
(* Aggregate's output, and the Aggregate arm starts a new set.             *)
(***************************************************************************)
C3_AllAncestorsCovered ==
    pc = "optimized" /\ Populated(LeafOf(optimized)) =>
        \A i \in 1..Len(Chain(optimized)) :
            CollectAll(NodeExprs(Chain(optimized)[i]))
                \subseteq Range(Unwrap(LeafOf(optimized).projection))

(***************************************************************************)
(* C3 amended. For every TableScan whose projection the rewrite populated, *)
(* the column indices of every expression of the scan's ancestors from the *)
(* nearest Aggregate above it downwards (of all its ancestors when no      *)
(* Aggregate is above it) are in the scan's projection.                    *)
(***************************************************************************)
CoveredBelowAggregate(out) ==
    Populated(LeafOf(out)) =>
        LET c == Chain(out)
            from == IF NearestAggregate(c) = 0 THEN 1 ELSE NearestAggregate(c)
        IN  \A i \in from..Len(c) :
                CollectAll(NodeExprs(c[i])) \subseteq Range(Unwrap(LeafOf(out).projection))

C3_AncestorsBelowAggregateCovered ==
    /\ pc \in {"optimized", "reoptimized"} => CoveredBelowAggregate(optimized)
    /\ pc = "reoptimized" => CoveredBelowAggregate(reoptimized)

\* a Selection above an Aggregate above a Selection above a populated scan
C3_Witness ==
    /\ pc = "optimized"
    /\ Populated(LeafOf(optimized))
    /\ Len(Chain(optimized)) = 3
    /\ optimized.kind = "Selection"
    /\ optimized.input.kind = "Aggregate"
    /\ optimized.input.input.kind = "Selection"
    /\ collect_expr(optimized.input.input.expr) # {}
    /\ Len(Unwrap(LeafOf(optimized).projection)) >= 3

(***************************************************************************)
(* Reading the planner's input and output                                  *)
(***************************************************************************)
Planned == pc = "planned" /\ IsOk(plan)

\* the plan of the FROM relation of a planned SELECT
InputOf(ast) ==
    IF IsSome(ast.relation) THEN Val(sql_to_rel(Unwrap(ast.relation)))
    ELSE EmptyRelation(EmptySchema)

\* the projection list of a planned SELECT, translated
TranslatedProjection(ast) ==
    [i \in 1..Len(ast.projection) |->
        Val(sql_to_rex(ast.projection[i], PlanSchema(InputOf(ast))))]

IsAggregateFunction(e) == e.tag = "AggregateFunction"

\* a plan without the Limit and the Sort at its root
RECURSIVE Body(_)
Body(p) == IF p.kind \in {"Limit", "Sort"} THEN Body(p.input) ELSE p

(***************************************************************************)
(* C4. Whenever sql_to_rel returns a plan, a LIMIT clause gives a Limit    *)
(* node at the root and an ORDER BY clause a Sort node under it, above the *)
(* Projection or Aggregate.                                                *)
(* Fails: the Aggregate branch returns before ORDER BY and LIMIT are       *)
(* looked at.                                                              *)
(***************************************************************************)
C4_OrderByAndLimitKept ==
    Planned =>
        LET p == Val(plan) IN
        /\ IsSome(sql.limit) => p.kind = "Limit"
        /\ IsSome(sql.order_by) =>
              LET q == IF IsSome(sql.limit) THEN p.input ELSE p
              IN  q.kind = "Sort" /\ q.input.kind \in {"Projection", "Aggregate"}

(***************************************************************************)
(* C5. A SELECT with a HAVING clause, which plans without it, makes        *)
(* sql_to_rel return General("HAVING is not implemented yet") and no plan. *)
(* Fails: the Aggregate branch never looks at HAVING.                      *)
(***************************************************************************)
C5_HavingRejected ==
    (/\ pc = "planned"
     /\ IsSome(sql.having)
     /\ IsOk(sql_to_rel([sql EXCEPT !.having = None])))
    => plan = Err(<<"General", "HAVING is not implemented yet">>)

(***************************************************************************)
(* C6. The plan of a SELECT is an Aggregate exactly when a top-level       *)
(* projection expression is an AggregateFunction (otherwise the node over  *)
(* the input is a Projection); aggr_expr is the sub-list of the aggregate  *)
(* projections in their order, group_expr the translated GROUP BY list     *)
(* (empty without GROUP BY), the input the Selection if WHERE is present   *)
(* and the FROM relation otherwise, and the schema the fields of           *)
(* group_expr followed by the fields of aggr_expr.                         *)
(***************************************************************************)
C6_AggregateShape ==
    Planned =>
        LET p == Val(plan)
            input == InputOf(sql)
            input_schema == PlanSchema(input)
            expr == TranslatedProjection(sql)
            group == IF IsSome(sql.group_by)
                     THEN [i \in 1..Len(Unwrap(sql.group_by)) |->
                             Val(sql_to_rex(Unwrap(sql.group_by)[i], input_schema))]
                     ELSE <<>>
        IN  IF \E i \in 1..Len(expr) : IsAggregateFunction(expr[i])
            THEN /\ p.kind = "Aggregate"
                 /\ p.aggr_expr = SelectSeq(expr, IsAggregateFunction)
                 /\ p.group_expr = group
                 /\ p.input = IF IsSome(sql.selection)
                              THEN Selection(Val(sql_to_rex(Unwrap(sql.selection),
                                                            input_schema)), input)
                              ELSE input
                 /\ Len(p.schema) = Len(p.group_expr) + Len(p.aggr_expr)
                 /\ \A i \in 1..Len(p.group_expr) :
                        p.schema[i] = Val(expr_to_field(p.group_expr[i], input_schema))
                 /\ \A i \in 1..Len(p.aggr_expr) :
                        p.schema[Len(p.group_expr) + i] =
                            Field(p.aggr_expr[i].name, p.aggr_expr[i].return_type, TRUE)
            ELSE Body(p).kind = "Projection"

\* GROUP BY, WHERE, and a non-aggregate projection next to an aggregate one
C6_Witness ==
    /\ Planned
    /\ Val(plan).kind = "Aggregate"
    /\ Len(Val(plan).group_expr) > 0
    /\ Len(sql.projection) > Len(Val(plan).aggr_expr)
    /\ Val(plan).input.kind = "Selection"

(***************************************************************************)
(* C7. On a statement with an unknown identifier (projection list, WHERE,  *)
(* GROUP BY, ORDER BY), an unknown table or a wildcard expression, the     *)
(* planner returns: it never aborts.                                       *)
(* Fails: ORDER BY items are unwrapped, the wildcard arm is                *)
(* unimplemented!.                                                         *)
(***************************************************************************)
Unknown == SQLIdentifier("nosuch")
Mentions(list, ast) == \E i \in 1..Len(list) : list[i] = ast
MentionsIn(option, ast) ==
    IsSome(option) /\ (Unwrap(option) = ast
                       \/ (Unwrap(option).node = "SQLBinaryExpr"
                           /\ ast \in {Unwrap(option).left, Unwrap(option).right}))
FailingStatement(ast) ==
    \/ Mentions(ast.projection, Unknown)
    \/ Mentions(ast.projection, SQLWildcard)
    \/ MentionsIn(ast.selection, Unknown)
    \/ IsSome(ast.group_by) /\ Mentions(Unwrap(ast.group_by), Unknown)
    \/ IsSome(ast.order_by)
         /\ \E i \in 1..Len(Unwrap(ast.order_by)) : Unwrap(ast.order_by)[i].expr = Unknown
    \/ ast.relation = Some(Unknown)

C7_FailuresAreErrorValues ==
    pc = "planned" /\ FailingStatement(sql) => plan.status # "Panic"

(***************************************************************************)
(* C8. In every plan sql_to_rel returns, each Column(i) of a node's        *)
(* expressions has 0 <= i < the number of fields of the node's input.      *)
(* Fails: COUNT(1) and COUNT( * ) become COUNT(Column(0)) whatever the       *)
(* input schema, the empty one of a SELECT without FROM included.          *)
(***************************************************************************)
ColumnsAddressInput(node) ==
    \A i \in CollectAll(NodeExprs(node)) : 0 <= i /\ i < Len(PlanSchema(node.input))

C8_ColumnsInRange ==
    Planned => \A k \in 1..Len(Chain(Val(plan))) : ColumnsAddressInput(Chain(Val(plan))[k])

(***************************************************************************)
(* C9. A binary AST expression whose operands translate to expressions of  *)
(* types L and R becomes, when L and R have a supertype S, a BinaryExpr    *)
(* with the corresponding operator whose operands both have type S: each   *)
(* is the translated operand, wrapped in Cast to S exactly when its own    *)
(* type is not S. Without a supertype the result is an error and no        *)
(* expression.                                                             *)
(***************************************************************************)
Translated == pc = "rex_done"

Widened(e, S) == IF get_type(e, schema) = S THEN e ELSE Cast(e, S)

C9_BinaryOperandsWidened ==
    (Translated /\ sql.node = "SQLBinaryExpr") =>
        LET l == sql_to_rex(sql.left, schema)
            r == sql_to_rex(sql.right, schema)
        IN  (IsOk(l) /\ IsOk(r)) =>
              LET S == get_supertype(get_type(Val(l), schema), get_type(Val(r), schema))
              IN  IF S # NoType
                  THEN /\ IsOk(rex)
                       /\ Val(rex).tag = "BinaryExpr"
                       /\ Val(rex).op = sql.op
                       /\ Val(rex).left = Widened(Val(l), S)
                       /\ Val(rex).right = Widened(Val(r), S)
                       /\ get_type(Val(rex).left, schema) = S
                       /\ get_type(Val(rex).right, schema) = S
                  ELSE rex.status = "Err" /\ rex.val = <<>>

\* one operand is wrapped and the other is left as it was translated
C9_Witness ==
    /\ Translated
    /\ sql.node = "SQLBinaryExpr"
    /\ IsOk(rex)
    /\ Val(rex).left.tag = "Cast"
    /\ Val(rex).right = Val(sql_to_rex(sql.right, schema))
    /\ Val(rex).right.tag # "Cast"

(***************************************************************************)
(* C10. A function call whose name differs only in letter case from a      *)
(* built-in aggregate or from a function of the catalog translates to the  *)
(* same variant, arguments and return type as the call under the exact     *)
(* name.                                                                   *)
(* Fails: the catalog is asked for the name as written.                    *)
(***************************************************************************)
C10_NameCaseIgnored ==
    (Translated /\ sql.node = "SQLFunction") =>
        LET exact == sql_to_rex(SQLFunction(to_lowercase(sql.id), sql.args), schema)
        IN  IsOk(exact) =>
              /\ IsOk(rex)
              /\ Val(rex).tag = Val(exact).tag
              /\ Val(rex).args = Val(exact).args
              /\ Val(rex).return_type = Val(exact).return_type

(***************************************************************************)
(* C11. A call of a function that is none of min, max, sum, avg, count and *)
(* that the catalog knows becomes a ScalarFunction with the declared       *)
(* return type, its i-th argument the translated i-th argument of the call *)
(* cast to the type of the i-th declared parameter (unchanged when it has  *)
(* that type already), and an error when a cast is not allowed; a name the *)
(* catalog does not know gives the error "Invalid function 'X'", X as      *)
(* written, and no expression.                                             *)
(* Fails: a call with more arguments than declared parameters indexes      *)
(* fm.args() out of bounds.                                                *)
(***************************************************************************)
BuiltinAggregates == {"min", "max", "sum", "avg", "count"}

TranslatedArgs(args) == [i \in 1..Len(args) |-> sql_to_rex(args[i], schema)]
AllOk(rs) == \A i \in 1..Len(rs) : IsOk(rs[i])
Castable(e, t) == get_type(e, schema) = t \/ can_coerce_from(t, get_type(e, schema))

C11_CatalogFunction ==
    (Translated /\ sql.node = "SQLFunction"
        /\ to_lowercase(sql.id) \notin BuiltinAggregates) =>
        LET fm == get_function_meta(sql.id)
            args == TranslatedArgs(sql.args)
        IN  IF IsSome(fm)
            THEN AllOk(args) =>
                   IF \A i \in 1..Len(args) :
                         /\ i <= Len(Unwrap(fm).args)
                         /\ Castable(Val(args[i]), Unwrap(fm).args[i].data_type)
                   THEN /\ IsOk(rex)
                        /\ Val(rex).tag = "ScalarFunction"
                        /\ Val(rex).return_type = Unwrap(fm).return_type
                        /\ Val(rex).args =
                             [i \in 1..Len(args) |->
                                Widened(Val(args[i]), Unwrap(fm).args[i].data_type)]
                   ELSE rex.status = "Err" /\ rex.val = <<>>
            ELSE rex = Err(<<"General", "Invalid function", sql.id>>)

(***************************************************************************)
(* C12. A call of count, in any letter case, becomes an AggregateFunction  *)
(* of return type UInt64 whatever its arguments, each argument that is     *)
(* the integer literal 1 or the wildcard replaced by Column(0) and every   *)
(* other argument translated against the input schema; a call of min,     *)
(* max, sum or avg becomes an AggregateFunction whose return type is the   *)
(* type of its first translated argument.                                  *)
(* Fails: min, max, sum and avg read rex_args[0] of a call without         *)
(* arguments.                                                              *)
(***************************************************************************)
CountTranslatedArgs(args) ==
    [i \in 1..Len(args) |->
        IF args[i] \in {SQLLong(1), SQLWildcard} THEN Ok(Column(0))
        ELSE sql_to_rex(args[i], schema)]

C12_BuiltinAggregates ==
    (Translated /\ sql.node = "SQLFunction") =>
        /\ to_lowercase(sql.id) = "count" =>
             LET args == CountTranslatedArgs(sql.args)
             IN  AllOk(args) =>
                   /\ IsOk(rex)
                   /\ Val(rex).tag = "AggregateFunction"
                   /\ Val(rex).return_type = "UInt64"
                   /\ Val(rex).args = [i \in 1..Len(args) |-> Val(args[i])]
        /\ to_lowercase(sql.id) \in {"min", "max", "sum", "avg"} =>
             LET args == TranslatedArgs(sql.args)
             IN  AllOk(args) =>
                   /\ IsOk(rex)
                   /\ Val(rex).tag = "AggregateFunction"
                   /\ Val(rex).args = [i \in 1..Len(args) |-> Val(args[i])]
                   /\ Len(args) >= 1
                   /\ Val(rex).return_type = get_type(Val(args[1]), schema)

(***************************************************************************)
(* C13. A SELECT without FROM is planned over EmptyRelation with an empty  *)
(* schema; an identifier in FROM that the schema provider knows becomes    *)
(* TableScan{schema_name = "default", table_name = the identifier,         *)
(* schema = the provider's, projection = None}; every TableScan of a plan  *)
(* the planner returns has projection None; an identifier the provider     *)
(* does not know gives the error "no schema found for table X" and no      *)
(* plan.                                                                   *)
(***************************************************************************)
\* the relation a SELECT reads: the input of its Projection or Aggregate,
\* under the Selection if there is one
RelationOf(p) ==
    IF Body(p).input.kind = "Selection" THEN Body(p).input.input ELSE Body(p).input

FromIdentifier(ast) ==
    IsSome(ast.relation) /\ Unwrap(ast.relation).node = "SQLIdentifier"

C13_FromRelation ==
    pc = "planned" =>
        /\ (IsOk(plan) /\ ~IsSome(sql.relation)) =>
              RelationOf(Val(plan)) = [kind |-> "EmptyRelation", schema |-> <<>>]
        /\ (IsOk(plan) /\ FromIdentifier(sql)) =>
              /\ IsSome(get_table_meta(Unwrap(sql.relation).id))
              /\ RelationOf(Val(plan)) =
                    [kind |-> "TableScan",
                     schema_name |-> "default",
                     table_name |-> Unwrap(sql.relation).id,
                     schema |-> Unwrap(get_table_meta(Unwrap(sql.relation).id)),
                     projection |-> None]
        /\ (IsOk(plan) /\ LeafOf(Val(plan)).kind = "TableScan") =>
              LeafOf(Val(plan)).projection = None
        /\ (FromIdentifier(sql) /\ ~IsSome(get_table_meta(Unwrap(sql.relation).id))) =>
              plan = [status |-> "Err", val |-> <<>>,
                      err |-> <<"General", "no schema found for table",
                                Unwrap(sql.relation).id>>]

\* a statement over a table the provider knows, with a WHERE clause
C13_Witness ==
    /\ Planned
    /\ FromIdentifier(sql)
    /\ IsSome(sql.selection)
    /\ RelationOf(Val(plan)).kind = "TableScan"

(***************************************************************************)
(* C14. With WHERE the SELECT has exactly one Selection: its input is the  *)
(* FROM relation, it is the direct input of the Projection or Aggregate,   *)
(* and the column indices of its predicate are positions of the schema of  *)
(* the FROM relation. Without WHERE the SELECT has no Selection and the    *)
(* Projection or Aggregate reads the FROM relation.                        *)
(* Fails: COUNT( * ) in WHERE is COUNT(Column(0)) whatever the schema of    *)
(* the FROM relation, the empty one of a SELECT without FROM included.     *)
(***************************************************************************)
\* the nodes of the SELECT itself: those above the plan of its FROM relation
OwnNodes(ast, p) == SubSeq(Chain(p), 1, Len(Chain(p)) - Len(Chain(InputOf(ast))))

OwnSelections(ast, p) ==
    {i \in 1..Len(OwnNodes(ast, p)) : OwnNodes(ast, p)[i].kind = "Selection"}

C14_SelectionOverFrom ==
    Planned =>
        LET p == Val(plan)
            input == InputOf(sql)
        IN  /\ Body(p).kind \in {"Projection", "Aggregate"}
            /\ IF IsSome(sql.selection)
               THEN /\ Cardinality(OwnSelections(sql, p)) = 1
                    /\ Body(p).input.kind = "Selection"
                    /\ Body(p).input.input = input
                    /\ \A i \in collect_expr(Body(p).input.expr) :
                          0 <= i /\ i < Len(PlanSchema(input))
               ELSE /\ OwnSelections(sql, p) = {}
                    /\ Body(p).input = input

(***************************************************************************)
(* C15. In the plan of a SELECT with ORDER BY over a Projection, the Sort  *)
(* has one Expr::Sort{expr, asc} per ORDER BY item, in the order of the    *)
(* clause, asc the direction of the item and expr resolved against the     *)
(* output schema of the Projection: the Column index of a key is the       *)
(* position of the named column in the projection list, not in the table.  *)
(* Sort.input is the Projection and Sort.schema the Projection's schema.    *)
(***************************************************************************)
\* the node under the Limit, if there is one
UnderLimit(p) == IF p.kind = "Limit" THEN p.input ELSE p

C15_SortKeys ==
    (Planned /\ IsSome(sql.order_by) /\ Body(Val(plan)).kind = "Projection") =>
        LET q == UnderLimit(Val(plan))
            projection == Body(Val(plan))
            items == Unwrap(sql.order_by)
        IN  /\ q.kind = "Sort"
            /\ q.input = projection
            /\ q.schema = projection.schema
            /\ Len(q.exprs) = Len(items)
            /\ \A i \in 1..Len(items) :
                  /\ q.exprs[i].tag = "Sort"
                  /\ q.exprs[i].asc = items[i].asc
                  /\ q.exprs[i].expr = Val(sql_to_rex(items[i].expr, projection.schema))
                  /\ items[i].expr.node = "SQLIdentifier" =>
                        /\ q.exprs[i].expr.tag = "Column"
                        /\ q.exprs[i].expr.index < Len(projection.exprs)
                        /\ projection.schema[q.exprs[i].expr.index + 1].name
                              = items[i].expr.id

\* two keys, the first descending, the second a column whose position in the
\* projection list is not its position in the table
C15_Witness ==
    /\ Planned
    /\ IsSome(sql.order_by)
    /\ UnderLimit(Val(plan)).kind = "Sort"
    /\ Len(UnderLimit(Val(plan)).exprs) = 2
    /\ UnderLimit(Val(plan)).exprs[1].asc = FALSE
    /\ UnderLimit(Val(plan)).exprs[2].expr.tag = "Column"
    /\ LeafOf(Val(plan)).kind = "TableScan"
    /\ Position(LeafOf(Val(plan)).schema, Unwrap(sql.order_by)[2].expr.id)
          # Some(UnderLimit(Val(plan)).exprs[2].expr.index)

(***************************************************************************)
(* C16. The predicate of every Selection of every plan the planner returns *)
(* has the result type Boolean: a WHERE expression of another type gives   *)
(* no plan that holds it as a Selection predicate.                         *)
(* Fails: the planner wraps whatever the WHERE expression translates to.   *)
(***************************************************************************)
C16_SelectionIsBoolean ==
    Planned =>
        \A k \in 1..Len(Chain(Val(plan))) :
            LET node == Chain(Val(plan))[k]
            IN  node.kind = "Selection" =>
                    get_type(node.expr, PlanSchema(node.input)) = "Boolean"

(***************************************************************************)
(* execution: record batches, compiled expressions, relations              *)
(***************************************************************************)
\* RecordBatch::new(schema, columns); a column is the sequence of its rows
RecordBatch(sch, columns) == [schema |-> sch, columns |-> columns]

NumRows(batch) == IF batch.columns = <<>> THEN 0 ELSE Len(batch.columns[1])

\* RuntimeExpr: a name, a result type and a function RecordBatch -> ArrayRef,
\* the function given by what it does to a batch
RuntimeExpr(name, data_type, func) == [name |-> name, data_type |-> data_type, func |-> func]
ColumnFunc(i) == [op |-> "column", index |-> i, v |-> 0]
LiteralFunc(v) == [op |-> "literal", index |-> 0, v |-> v]
FailingFunc == [op |-> "fail", index |-> 0, v |-> 0]

\* e.get_func()(&batch)
Evaluate(e, batch) ==
    CASE e.func.op = "column" ->
            IF e.func.index < Len(batch.columns)
            THEN Ok(batch.columns[e.func.index + 1])
            ELSE Panic(<<"index out of bounds">>)
      [] e.func.op = "literal" -> Ok([r \in 1..NumRows(batch) |-> e.func.v])
      [] OTHER -> Err(<<"ExecutionError", "expression failed">>)

\* DataSourceRelation: a relation over the batches a data source yields.
\* The stream is what its next() returns call by call; past its end it
\* returns end-of-stream.
DataSourceRelation(sch, stream) ==
    [kind |-> "DataSourceRelation", schema |-> sch, stream |-> stream]

\* ProjectRelation::new(input, expr, schema)
ProjectRelation(input, expr, sch) ==
    [kind |-> "ProjectRelation", schema |-> sch, input |-> input, exprs |-> expr]

\* DataSourceRelation::next: the result, the relation afterwards
DataSourceNext(r) ==
    IF r.stream = <<>>
    THEN [result |-> Ok(None), rel |-> r]
    ELSE [result |-> Head(r.stream), rel |-> [r EXCEPT !.stream = Tail(r.stream)]]

\* ProjectRelation::next with end-of-stream of the input skipped over
ProjectNextSkippingEnd(r) ==
    LET first == DataSourceNext(r.input)
        again == DataSourceNext(first.rel)
        in == IF first.result = Ok(None) THEN again ELSE first
        pulled == IF first.result = Ok(None) THEN <<first.result, again.result>>
                  ELSE <<first.result>>
        after == [r EXCEPT !.input = in.rel]
    IN  IF ~IsOk(in.result) THEN [result |-> in.result, rel |-> after, pulled |-> pulled]
        ELSE IF ~IsSome(Val(in.result))
        THEN [result |-> Ok(None), rel |-> after, pulled |-> pulled]
        ELSE LET batch == Unwrap(Val(in.result))
                 projected_columns ==
                     Collect([i \in 1..Len(r.exprs) |-> Evaluate(r.exprs[i], batch)])
                 sch == [i \in 1..Len(r.exprs) |->
                            Field(r.exprs[i].name, r.exprs[i].data_type, TRUE)]
             IN  IF ~IsOk(projected_columns)
                 THEN [result |-> projected_columns, rel |-> after, pulled |-> pulled]
                 ELSE [result |-> Ok(Some(RecordBatch(sch, Val(projected_columns)))),
                       rel |-> after, pulled |-> pulled]

\* ProjectRelation::next: the result, the relation afterwards and what the
\* input returned to the calls of its next()
ProjectNext(r) ==
    LET in == DataSourceNext(r.input)
        after == [r EXCEPT !.input = in.rel]
        pulled == <<in.result>>
    IN  IF ~IsOk(in.result) THEN [result |-> in.result, rel |-> after, pulled |-> pulled]
        ELSE IF ~IsSome(Val(in.result))
        THEN [result |-> Ok(None), rel |-> after, pulled |-> pulled]
        ELSE LET batch == Unwrap(Val(in.result))
                 projected_columns ==
                     Collect([i \in 1..Len(r.exprs) |-> Evaluate(r.exprs[i], batch)])
                 sch == [i \in 1..Len(r.exprs) |->
                            Field(r.exprs[i].name, r.exprs[i].data_type, TRUE)]
             IN  IF ~IsOk(projected_columns)
                 THEN [result |-> projected_columns, rel |-> after, pulled |-> pulled]
                 ELSE [result |-> Ok(Some(RecordBatch(sch, Val(projected_columns)))),
                       rel |-> after, pulled |-> pulled]

(***************************************************************************)
(* A ProjectRelation over a scripted input, as tests::project_first_column *)
(* builds it, and calls of its next().                                     *)
(***************************************************************************)
MaxStream == 3
MaxExprs == 2
MaxCalls == 4

InSchema == <<Field("c1", "Int64", FALSE), Field("c2", "UInt32", FALSE)>>

InBatches ==
    {RecordBatch(InSchema, <<<<10, 11>>, <<20, 21>>>>),
     RecordBatch(InSchema, <<<<12>>, <<22>>>>)}

\* what the input can return to one call of next()
InItems ==
    {Ok(Some(b)) : b \in InBatches}
    \cup {Ok(None), Err(<<"IoError", "read failed">>)}

InExprs ==
    {RuntimeExpr("c1", "Int64", ColumnFunc(0)),
     RuntimeExpr("c2", "UInt32", ColumnFunc(1)),
     RuntimeExpr("cast", "Int8", FailingFunc)}

InitProject ==
    /\ pc = "open"
    /\ \E stream \in SeqsUpTo(InItems, MaxStream),
          expr \in NonEmptySeqsUpTo(InExprs, MaxExprs) :
            rel = Ok(ProjectRelation(DataSourceRelation(InSchema, stream), expr, InSchema))
    /\ pulls = <<>>
    /\ returned = None
    /\ stack = <<>>
    /\ trace = <<>>
    /\ output = <<>>
    /\ sql = None
    /\ schema = InSchema
    /\ rex = None
    /\ plan = None
    /\ seed = {}
    /\ seedHasher = 0
    /\ optimized = None
    /\ reoptimized = None

\* relation.borrow_mut().next() by the consumer of the relation
NextBatch ==
    /\ pc = "open"
    /\ IsOk(rel)
    /\ Val(rel).kind = "ProjectRelation"
    /\ Val(rel).input.kind = "DataSourceRelation"
    /\ Len(output) < MaxCalls
    /\ LET n == ProjectNext(Val(rel))
       IN  /\ rel' = Ok(n.rel)
           /\ pulls' = pulls \o n.pulled
           /\ output' = Append(output, n.result)
           /\ pc' = IF n.result.status = "Panic" THEN "aborted" ELSE pc
    /\ UNCHANGED <<sql, schema, rex, plan, seed, seedHasher, optimized, reoptimized,
                   callVars>>

NextProject == NextBatch

SpecProject == InitProject /\ [][NextProject]_vars

(***************************************************************************)
(* C17. ProjectRelation.next() pulls its input once per call and mirrors   *)
(* it: a batch of the input gives a batch built from it with one column    *)
(* per expression, in the order of the expressions, or the error of the    *)
(* first expression that fails; end-of-stream gives end-of-stream and      *)
(* nothing else does; an error of the input is returned. With an input     *)
(* that stays at end-of-stream, every call after one that returned         *)
(* end-of-stream returns end-of-stream.                                    *)
(***************************************************************************)
IsBatch(r) == IsOk(r) /\ IsSome(Val(r))
IsEnd(r) == r = Ok(None)
StaysAtEnd(calls) ==
    \A i \in 1..Len(calls) : \A j \in i..Len(calls) : IsEnd(calls[i]) => IsEnd(calls[j])

Mirrors(in, out, expr) ==
    LET columns == [k \in 1..Len(expr) |-> Evaluate(expr[k], Unwrap(Val(in)))]
    IN  /\ IsEnd(out) <=> IsEnd(in)
        /\ IsBatch(out) => IsBatch(in)
        /\ ~IsOk(in) => out = in
        /\ (IsBatch(in) /\ AllOk(columns)) =>
              /\ IsBatch(out)
              /\ Len(Unwrap(Val(out)).columns) = Len(expr)
              /\ \A k \in 1..Len(expr) : Unwrap(Val(out)).columns[k] = Val(columns[k])
        /\ (IsBatch(in) /\ ~AllOk(columns)) =>
              \E k \in 1..Len(expr) :
                  /\ out = columns[k]
                  /\ \A m \in 1..(k - 1) : IsOk(columns[m])

C17_NextMirrorsInput ==
    (pc = "open" /\ IsOk(rel) /\ Val(rel).kind = "ProjectRelation"
        /\ Val(rel).input.kind = "DataSourceRelation") =>
        /\ Len(pulls) = Len(output)
        /\ \A i \in 1..Len(output) : Mirrors(pulls[i], output[i], Val(rel).exprs)
        /\ StaysAtEnd(pulls) => StaysAtEnd(output)

\* a batch of two columns, an error of the input and end-of-stream, in three
\* calls
C17_Witness ==
    /\ pc = "open"
    /\ Len(output) = 3
    /\ IsBatch(output[1])
    /\ Len(Unwrap(Val(output[1])).columns) = 2
    /\ output[2].status = "Err"
    /\ IsEnd(output[3])

(***************************************************************************)
(* execution::context: ExecutionContext::execute                           *)
(***************************************************************************)
\* FilterRelation::new(input, expr, schema)
FilterRelation(input, expr, sch) ==
    [kind |-> "FilterRelation", schema |-> sch, input |-> input, expr |-> expr]

\* AggregateRelation::new(schema, input, group_expr, aggr_expr)
AggregateRelation(sch, input, group_expr, aggr_expr) ==
    [kind |-> "AggregateRelation", schema |-> sch, input |-> input,
     group_expr |-> group_expr, aggr_expr |-> aggr_expr]

\* LimitRelation::new(input, limit, schema)
LimitRelation(input, limit, sch) ==
    [kind |-> "LimitRelation", schema |-> sch, input |-> input, limit |-> limit]

\* A usize, 64 bits wide, as its four 16-bit digits, lowest first.
Base == 65536
Shift(x) == x \div Base
Usize(x) == <<x % Base, Shift(x) % Base, Shift(Shift(x)) % Base,
              Shift(Shift(Shift(x))) % Base>>

\* *x as usize: sign extension for the signed types, zero extension for the
\* unsigned ones
AsUsize(x) == Usize(x)

\* self.datasources: the tables registered with the context, and what
\* provider.scan(projection, batch_size) yields for each
Registered == {"person"}
ScanOf(table_name) ==
    DataSourceRelation(PersonSchema,
        <<Ok(Some(RecordBatch(PersonSchema, [i \in 1..Len(PersonSchema) |-> <<i, i + 10>>])))>>)

\* compile_scalar_expr / compile_expr(ctx, e, input_schema), for the kinds
\* of expression the executed plans hold
compile_expr(e, input_schema) ==
    CASE e.tag = "Column" ->
            IF e.index < Len(input_schema)
            THEN Ok(RuntimeExpr(input_schema[e.index + 1].name,
                                input_schema[e.index + 1].data_type,
                                ColumnFunc(e.index)))
            ELSE Panic(<<"index out of bounds">>)
      [] e.tag = "Literal" -> Ok(RuntimeExpr("lit", e.data_type, LiteralFunc(e.v)))
      [] OTHER -> Err(<<"NotImplemented", "compile", e.tag>>)

\* context.rs has its own expr_to_field and exprlist_to_fields, the same
\* functions as those of sqlplanner.rs
context_exprlist_to_fields(expr, input_schema) ==
    Collect([i \in 1..Len(expr) |-> expr_to_field(expr[i], input_schema)])

\* the Limit arm once the input is executed
LimitOf(expr, input_rel) ==
    IF expr.tag = "Literal" /\ expr.data_type \in SignedTypes \cup UnsignedTypes
    THEN Ok(LimitRelation(input_rel, AsUsize(expr.v), input_rel.schema))
    ELSE Err(<<"ExecutionError", "Limit only support positive integer literals">>)

\* the arm of execute for a node with an input, from the point where the
\* input relation exists
OwnRelation(p, input_rel) ==
    LET input_schema == input_rel.schema IN
    CASE p.kind = "Selection" ->
            LET runtime_expr == compile_expr(p.expr, input_schema)
            IN  IF ~IsOk(runtime_expr) THEN runtime_expr
                ELSE Ok(FilterRelation(input_rel, Val(runtime_expr), input_schema))
      [] p.kind = "Projection" ->
            LET project_columns == context_exprlist_to_fields(p.exprs, input_schema)
                compiled_expr ==
                    Collect([i \in 1..Len(p.exprs) |->
                               compile_expr(p.exprs[i], input_schema)])
            IN  IF ~IsOk(project_columns) THEN project_columns
                ELSE IF ~IsOk(compiled_expr) THEN compiled_expr
                ELSE Ok(ProjectRelation(input_rel, Val(compiled_expr),
                                        Val(project_columns)))
      [] p.kind = "Aggregate" ->
            LET compiled_group_expr ==
                    Collect([i \in 1..Len(p.group_expr) |->
                               compile_expr(p.group_expr[i], input_schema)])
                compiled_aggr_expr ==
                    Collect([i \in 1..Len(p.aggr_expr) |->
                               compile_expr(p.aggr_expr[i], input_schema)])
            IN  IF ~IsOk(compiled_group_expr) THEN compiled_group_expr
                ELSE IF ~IsOk(compiled_aggr_expr) THEN compiled_aggr_expr
                ELSE Ok(AggregateRelation(EmptySchema, input_rel,
                                          Val(compiled_group_expr),
                                          Val(compiled_aggr_expr)))
      [] p.kind = "Limit" -> LimitOf(p.expr, input_rel)

\* the arms of execute that start with self.execute(input, batch_size)?
ExecutesInput == {"Selection", "Projection", "Aggregate", "Limit"}

\* the arms of execute without an input to execute
LeafRelation(p) ==
    IF p.kind = "TableScan"
    THEN IF p.table_name \in Registered THEN Ok(ScanOf(p.table_name))
         ELSE Err(<<"General", "No table registered as", p.table_name>>)
    ELSE Panic(<<"not implemented">>)

\* an arm that builds its relation whatever its input returned, over an
\* empty source when the input failed
ArmOverFailedInput(p, input_result) ==
    OwnRelation(p, IF IsOk(input_result) THEN Val(input_result)
                   ELSE DataSourceRelation(EmptySchema, <<>>))

\* let input_rel = self.execute(input, batch_size)?; and the rest of the arm
ArmAfterInput(p, input_result) ==
    IF ~IsOk(input_result) THEN input_result
    ELSE OwnRelation(p, Val(input_result))

\* ExecutionContext::execute
RECURSIVE execute(_)
execute(p) ==
    IF p.kind \in ExecutesInput
    THEN ArmAfterInput(p, execute(p.input))
    ELSE LeafRelation(p)

(***************************************************************************)
(* ExecutionContext::sql after parsing: plan, execute, and the consumer's  *)
(* calls of next(); execute also on plans built by hand.                   *)
(***************************************************************************)
MaxLimit == 1

Select(projection) == SQLSelect(projection, None, None, None, None, None, None)

\* SELECT statements without a FROM clause
NoFromSelects ==
    {Select(<<SQLLong(1)>>),
     Select(<<SQLLong(1), SQLLong(0)>>),
     Select(<<SQLFunction("sqrt", <<SQLLong(1)>>)>>),
     Select(<<SQLFunction("COUNT", <<SQLLong(1)>>)>>),
     [Select(<<SQLLong(1)>>) EXCEPT !.limit = Some(SQLLong(1))],
     [Select(<<SQLLong(1)>>) EXCEPT !.order_by = Some(<<SQLOrderBy(SQLIdentifier("lit"), TRUE)>>)],
     [Select(<<SQLLong(1)>>) EXCEPT
         !.selection = Some(SQLBinaryExpr(SQLLong(1), "Eq", SQLLong(1)))]}

PersonScan == TableScan("default", "person", PersonSchema, None)
UnknownScan == TableScan("default", "nosuch", PersonSchema, None)

ProjectedExprs == {Column(0), Column(3), Literal("Int64", 1)}

ProjectionPlans ==
    {WrapProjection(PersonScan, expr) : expr \in NonEmptySeqsUpTo(ProjectedExprs, MaxExprs)}

\* the expressions of the Limit nodes: integer literals of every width,
\* another literal, an expression that is no literal
LimitExprs ==
    {Literal(t, v) : t \in SignedTypes, v \in (0 - MaxLimit)..MaxLimit}
    \cup {Literal(t, v) : t \in UnsignedTypes, v \in 0..MaxLimit}
    \cup {Literal("Float64", 1), Column(0)}

LimitPlans ==
    {WrapLimit(input, expr) :
        input \in {PersonScan, UnknownScan, WrapProjection(PersonScan, <<Column(0)>>)},
        expr \in LimitExprs}

HandBuiltPlans ==
    ProjectionPlans \cup LimitPlans
    \cup {PersonScan, UnknownScan, WrapSort(PersonScan, <<SortExpr(Column(0), TRUE)>>)}

InitExec ==
    /\ \/ pc = "parsed" /\ sql \in NoFromSelects /\ plan = None
       \/ pc = "planned" /\ sql = None /\ \E p \in HandBuiltPlans : plan = Ok(p)
    /\ rel = None
    /\ pulls = <<>>
    /\ returned = None
    /\ stack = <<>>
    /\ trace = <<>>
    /\ output = <<>>
    /\ schema = EmptySchema
    /\ rex = None
    /\ seed = {}
    /\ seedHasher = 0
    /\ optimized = None
    /\ reoptimized = None

\* let relation = self.execute(&plan, batch_size)
Execute ==
    /\ pc = "planned"
    /\ IsOk(plan)
    /\ rel' = execute(Val(plan))
    /\ pc' = CASE rel'.status = "Ok" -> "open"
               [] rel'.status = "Err" -> "failed"
               [] OTHER -> "aborted"
    /\ UNCHANGED <<sql, schema, rex, plan, seed, seedHasher, optimized, reoptimized,
                   pulls, output, callVars>>

NextExec == Plan \/ Execute \/ NextBatch

SpecExec == InitExec /\ [][NextExec]_vars

Executed == pc \in {"open", "failed", "aborted"}

(***************************************************************************)
(* C18. The schema that schema() of a ProjectRelation built by execute     *)
(* reports equals, field for field (count, name, data type, nullability),  *)
(* the schema of every batch its next() emits.                             *)
(* Fails: execute takes the field of a Column from the input schema,       *)
(* nullability included, and next() declares every field nullable.         *)
(***************************************************************************)
C18_SchemaOfBatches ==
    (pc = "open" /\ IsOk(rel) /\ Val(rel).kind = "ProjectRelation") =>
        \A i \in 1..Len(output) :
            IsBatch(output[i]) => Unwrap(Val(output[i])).schema = Val(rel).schema

(***************************************************************************)
(* C19. execute on a Limit node whose input executes succeeds exactly when *)
(* the expression is an integer Literal, of any signed or unsigned width,  *)
(* that is not negative, and the row limit of the LimitRelation is then    *)
(* that value; any other expression gives                                  *)
(* ExecutionError("Limit only support positive integer literals") and no   *)
(* relation.                                                               *)
(* Fails: a negative literal is cast with `as usize` and accepted.         *)
(***************************************************************************)
IsIntegerLiteral(e) ==
    e.tag = "Literal" /\ e.data_type \in SignedTypes \cup UnsignedTypes

C19_LimitLiteral ==
    (Executed /\ Val(plan).kind = "Limit" /\ IsOk(execute(Val(plan).input))) =>
        IF IsIntegerLiteral(Val(plan).expr) /\ Val(plan).expr.v >= 0
        THEN /\ IsOk(rel)
             /\ Val(rel).kind = "LimitRelation"
             /\ Val(rel).limit = <<Val(plan).expr.v, 0, 0, 0>>
        ELSE rel = [status |-> "Err", val |-> <<>>,
                    err |-> <<"ExecutionError",
                              "Limit only support positive integer literals">>]

(***************************************************************************)
(* C20. Executing the plan of SELECT 1 succeeds and the relation yields    *)
(* one batch of one Int64 column and one row holding 1, then               *)
(* end-of-stream; for every plan of a SELECT without FROM execute returns  *)
(* a relation or an error, it does not abort.                              *)
(* Fails: execute has no arm for EmptyRelation and reaches unimplemented!. *)
(***************************************************************************)
C20_SelectWithoutFrom ==
    (Executed /\ sql # None) =>
        /\ rel.status # "Panic"
        /\ sql = Select(<<SQLLong(1)>>) =>
              /\ IsOk(rel)
              /\ Len(output) >= 1 =>
                    /\ IsBatch(output[1])
                    /\ Unwrap(Val(output[1])).columns = << <<1>> >>
                    /\ Len(Unwrap(Val(output[1])).schema) = 1
                    /\ Unwrap(Val(output[1])).schema[1].data_type = "Int64"
              /\ Len(output) >= 2 => IsEnd(output[2])

(***************************************************************************)
(* C21. The optimizer changes TableScan.projection and nothing else: its   *)
(* output has the tree shape, node kinds, expressions, schemas,            *)
(* schema_name and table_name of its input on every node, a TableScan      *)
(* keeping the full table schema; a plan whose root is Projection, Sort,   *)
(* Limit or EmptyRelation is returned as it is, every TableScan beneath it *)
(* included.                                                               *)
(***************************************************************************)
\* a plan with the projection of every TableScan set aside
RECURSIVE WithoutScanProjection(_)
WithoutScanProjection(p) ==
    CASE p.kind = "TableScan" -> [p EXCEPT !.projection = None]
      [] p.kind = "EmptyRelation" -> p
      [] OTHER -> [p EXCEPT !.input = WithoutScanProjection(p.input)]

ReturnedAsIs == {"Projection", "Sort", "Limit", "EmptyRelation"}

Framed(before, after) ==
    /\ WithoutScanProjection(after) = WithoutScanProjection(before)
    /\ before.kind \in ReturnedAsIs => after = before

C21_OnlyScanProjectionChanges ==
    /\ pc \in {"optimized", "reoptimized"} => Framed(Val(plan), optimized)
    /\ pc = "reoptimized" => Framed(optimized, reoptimized)

C21_Witness ==
    /\ pc = "reoptimized"
    /\ Val(plan).kind = "Aggregate"
    /\ Val(plan).input.kind = "Selection"
    /\ LeafOf(Val(plan)).kind = "TableScan"
    /\ LeafOf(optimized).projection # None
    /\ optimized # Val(plan)
    /\ LeafOf(optimized).schema = PersonSchema

(***************************************************************************)
(* ExecutionContext::sql stage by stage, and execute call by call: the     *)
(* arm of a node calls execute on its input, waits on the stack for the    *)
(* result, and goes on or returns the error.  execute is also called on    *)
(* plans built by hand.                                                    *)
(***************************************************************************)
Event(ev, depth, result) ==
    [ev |-> ev, depth |-> depth, status |-> result.status, err |-> result.err]

\* DFParser::parse_sql: a parser error, an ANSI statement, or a statement
\* of the DataFusion dialect
SqlStatements ==
    {Select(<<SQLLong(1)>>),
     SQLSelect(<<SQLIdentifier("id")>>, Some(SQLIdentifier("person")),
               None, None, None, None, None),
     SQLSelect(<<SQLIdentifier("id"), SQLIdentifier("age")>>,
               Some(SQLIdentifier("person")), None, None, Some(SQLLong(1)), None, None),
     SQLSelect(<<SQLIdentifier("id")>>, Some(SQLIdentifier("person")),
               Some(SQLIsNotNull(SQLIdentifier("age"))), None, None, None, None),
     SQLSelect(<<SQLFunction("MIN", <<SQLIdentifier("age")>>)>>,
               Some(SQLIdentifier("person")), None, None, None, None, None),
     SQLSelect(<<SQLIdentifier("id")>>, Some(SQLIdentifier("nosuch")),
               None, None, None, None, None),
     SQLSelect(<<SQLIdentifier("nosuch")>>, Some(SQLIdentifier("person")),
               None, None, None, None, None),
     SQLSelect(<<SQLIdentifier("id")>>, Some(SQLIdentifier("person")),
               None, None, None, None, Some(SQLBoolean(TRUE)))}

CreateExternalTable == [node |-> "CreateExternalTable"]

ParseOutcomes ==
    {Ok(ast) : ast \in SqlStatements}
    \cup {Ok(CreateExternalTable), Err(<<"ParserError", "unexpected token">>)}

\* the plans execute is called on directly
DirectPlans ==
    HandBuiltPlans
    \cup {WrapProjection(l, <<Column(0)>>) : l \in LimitPlans}
    \cup {WrapLimit(WrapLimit(PersonScan, e), Lit(1)) : e \in LimitExprs}

InitSql ==
    /\ \/ pc = "called" /\ optimized = None
       \/ pc = "optimized" /\ optimized \in DirectPlans
    /\ sql = None
    /\ plan = None
    /\ schema = EmptySchema
    /\ rex = None
    /\ seed = {}
    /\ seedHasher = 0
    /\ reoptimized = None
    /\ rel = None
    /\ pulls = <<>>
    /\ output = <<>>
    /\ returned = None
    /\ stack = <<>>
    /\ trace = <<>>

\* let ast = DFParser::parse_sql(String::from(sql))?; match ast { .. }
ParseSql ==
    /\ pc = "called"
    /\ \E r \in ParseOutcomes :
          /\ trace' = Append(trace, Event("parse", 0, r))
          /\ IF ~IsOk(r)
             THEN pc' = "returned" /\ returned' = r /\ sql' = sql
             ELSE IF Val(r).node = "SQLSelect"
             THEN pc' = "parsed" /\ returned' = returned /\ sql' = Val(r)
             ELSE /\ pc' = "aborted"
                  /\ returned' = Panic(<<"not implemented">>)
                  /\ sql' = sql
    /\ UNCHANGED <<schema, rex, plan, seed, seedHasher, optimized, reoptimized,
                   rel, pulls, output, stack>>

\* let plan = query_planner.sql_to_rel(&ansi)?
PlanSql ==
    /\ pc = "parsed"
    /\ plan' = sql_to_rel(sql)
    /\ trace' = Append(trace, Event("plan", 0, plan'))
    /\ IF IsOk(plan')
       THEN pc' = "planned" /\ returned' = returned
       ELSE /\ pc' = IF plan'.status = "Err" THEN "returned" ELSE "aborted"
            /\ returned' = plan'
    /\ UNCHANGED <<sql, schema, rex, seed, seedHasher, optimized, reoptimized,
                   rel, pulls, output, stack>>

\* let optimized_plan = self.optimize(&plan)?
OptimizeSql ==
    /\ pc = "planned"
    /\ \E fresh \in 0..MaxHashKey :
          optimized' = push_down_projection(Val(plan), {}, fresh, fresh + 1)
    /\ trace' = Append(trace, Event("optimize", 0, Ok(optimized')))
    /\ pc' = "optimized"
    /\ UNCHANGED <<sql, schema, rex, plan, seed, seedHasher, reoptimized,
                   rel, pulls, output, returned, stack>>

\* self.execute(&optimized_plan, batch_size), and self.execute(input,
\* batch_size) at the head of an arm: the call of execute on a node. A node
\* with an input waits on the stack; a TableScan returns its relation or its
\* error; any other node aborts.
Call ==
    /\ pc \in {"optimized", "descending"}
    /\ LET node == IF pc = "optimized" THEN optimized ELSE stack[Len(stack)].input
           depth == Len(stack) + 1
           entered == IF pc = "optimized"
                      THEN Append(trace, Event("execute", 0, Ok(node)))
                      ELSE trace
       IN  IF node.kind \in ExecutesInput
           THEN /\ stack' = Append(stack, node)
                /\ pc' = "descending"
                /\ trace' = entered
                /\ UNCHANGED <<rel, returned>>
           ELSE LET r == LeafRelation(node) IN
                /\ rel' = r
                /\ trace' = Append(entered,
                                   Event(IF IsOk(r) THEN "built" ELSE "failed", depth, r))
                /\ stack' = stack
                /\ pc' = IF r.status = "Panic" THEN "aborted" ELSE "returning"
                /\ returned' = IF r.status = "Panic" THEN r ELSE returned
    /\ UNCHANGED <<sql, schema, rex, plan, seed, seedHasher, optimized, reoptimized,
                   pulls, output>>

\* the arm of the node on top of the stack once execute on its input has
\* returned
Return ==
    /\ pc = "returning"
    /\ stack # <<>>
    /\ LET node == stack[Len(stack)]
           r == ArmAfterInput(node, rel)
       IN  /\ rel' = r
           /\ stack' = SubSeq(stack, 1, Len(stack) - 1)
           /\ trace' = IF IsOk(r) THEN Append(trace, Event("built", Len(stack), r))
                       ELSE IF r = rel THEN trace
                       ELSE Append(trace, Event("failed", Len(stack), r))
           /\ pc' = IF r.status = "Panic" THEN "aborted" ELSE "returning"
           /\ returned' = IF r.status = "Panic" THEN r ELSE returned
    /\ UNCHANGED <<sql, schema, rex, plan, seed, seedHasher, optimized, reoptimized,
                   pulls, output>>

\* the outermost execute hands its result to its caller: in sql,
\* let relation = self.execute(..)?; Ok(relation)
ReturnSql ==
    /\ pc = "returning"
    /\ stack = <<>>
    /\ returned' = rel
    /\ pc' = "returned"
    /\ UNCHANGED <<sql, schema, rex, plan, seed, seedHasher, optimized, reoptimized,
                   rel, pulls, output, stack, trace>>

NextSql == ParseSql \/ PlanSql \/ OptimizeSql \/ Call \/ Return \/ ReturnSql

SpecSql == InitSql /\ [][NextSql]_vars

(***************************************************************************)
(* C22. ExecutionContext::sql runs its stages in the order parse, plan,    *)
(* optimize, execute; the first stage that returns an error ends the call  *)
(* with that error, no later stage runs and no relation is returned.       *)
(* Within execute the input relation of a node is built before the         *)
(* relation of the node, and an error while building the input (a          *)
(* TableScan of a table that is not registered: "No table registered as    *)
(* X") is returned without a relation of an ancestor being built.          *)
(***************************************************************************)
StageOrder == <<"parse", "plan", "optimize", "execute">>

IsStage(e) == e.depth = 0
Stages == SelectSeq(trace, IsStage)

\* the call under way is a call of sql, not of execute alone
CallOfSql == pc = "called" \/ (trace # <<>> /\ trace[1].ev = "parse")

\* the node of a plan at a depth, the root at depth 1
RECURSIVE NodeAt(_, _)
NodeAt(p, d) == IF d = 1 THEN p ELSE NodeAt(p.input, d - 1)

StagesInOrder ==
    /\ Len(Stages) <= Len(StageOrder)
    /\ \A i \in 1..Len(Stages) : Stages[i].ev = StageOrder[i]
    /\ \A i \in 1..Len(trace) :
          ~IsStage(trace[i]) => \E k \in 1..(i - 1) : trace[k].ev = "execute"

FirstErrorEndsCall ==
    \A i \in 1..Len(Stages) :
        Stages[i].status = "Err" =>
            /\ i = Len(Stages)
            /\ pc = "returned"
            /\ returned = [status |-> "Err", val |-> <<>>, err |-> Stages[i].err]
            /\ i < 2 => plan = None
            /\ i < 3 => optimized = None
            /\ rel = None /\ stack = <<>>

InputBuiltFirst ==
    \A j \in 1..Len(trace) :
        (trace[j].ev = "built" /\ NodeAt(optimized, trace[j].depth).kind \in ExecutesInput)
            => \E i \in 1..(j - 1) :
                  trace[i].ev = "built" /\ trace[i].depth = trace[j].depth + 1

InputErrorReturned ==
    \A i \in 1..Len(trace) :
        trace[i].ev = "failed" =>
            /\ \A j \in (i + 1)..Len(trace) : trace[j].ev # "built"
            /\ \A j \in 1..Len(trace) :
                  trace[j].ev = "built" => trace[j].depth > trace[i].depth
            /\ rel.status = trace[i].status /\ rel.err = trace[i].err
            /\ pc = "returned" => returned = rel /\ ~IsOk(returned)

C22_StagesAndInputsInOrder ==
    /\ CallOfSql => StagesInOrder /\ FirstErrorEndsCall
    /\ CallOfSql /\ pc = "returned" /\ IsOk(returned) =>
          Len(Stages) = Len(StageOrder) /\ returned = rel
    /\ InputBuiltFirst
    /\ InputErrorReturned

\* a call of sql went through its four stages and built a relation over its
\* input; and a call of execute returned the error of an unregistered table
\* through two ancestors
C22_Witness ==
    \/ /\ CallOfSql /\ pc = "returned" /\ IsOk(returned)
       /\ Len(trace) >= 6
       /\ trace[Len(trace)].ev = "built" /\ trace[Len(trace)].depth = 1
    \/ /\ ~CallOfSql /\ pc = "returned"
       /\ optimized.kind = "Projection" /\ optimized.input.kind = "Limit"
       /\ returned = [status |-> "Err", val |-> <<>>,
                      err |-> <<"General", "No table registered as", "nosuch">>]

\* what the calls of execute return, one node at a time, is what execute
\* returns as a function of the plan
StepwiseAgrees ==
    (pc \in {"returned", "aborted"} /\ optimized # None
     /\ \E i \in 1..Len(trace) : trace[i].ev = "execute")
        => returned = execute(optimized)

====
